---- MODULE Spec2Model ----
(***************************************************************************)
(* A model of estafette-ci-api's event dispatch and build-job              *)
(* orchestration: the webhook event channel, the github event workers      *)
(* (ListenToEventChannels / Stop / CreateJobForGithubPush), the provider   *)
(* API client (GetEstafetteManifest, GetAuthenticatedRepositoryURL), the   *)
(* graceful shutdown in main, and the docker hub digest cache              *)
(* (GetDigestCached).                                                      *)
(*                                                                         *)
(* Strings the code inspects are sequences: a ref is a sequence of         *)
(* characters, a url a sequence of segments.                               *)
(*                                                                         *)
(* Specifications: Spec (channel, workers, pipelines, shutdown),           *)
(* AnyPushSpec (Spec with pushes that carry no changes), TimedSpec (the    *)
(* pipelines while the clock advances), CacheSpec (calls of                *)
(* GetDigestCached one after the other), LookupSpec (the same, with the    *)
(* first call for each key remembered), RaceSpec (GetDigestCached          *)
(* statement by statement, called by two goroutines), ShutdownSpec (Spec    *)
(* under the scheduling of the Go runtime, noting the pipelines in         *)
(* progress when the signal arrives), WorkerSpec (one worker's listen       *)
(* loop and Stop, whoever calls it).                                       *)
(***************************************************************************)
EXTENDS Integers, Sequences, FiniteSets, TLC

\* ------------------------------------------------------------------------
\* Bounds
\* ------------------------------------------------------------------------

\* number of webhook deliveries the model follows
MaxEvents == 2

\* config.Integrations.Github.MaxWorkers
MaxWorkers == 1

\* config.Integrations.Github.EventChannelBufferSize
EventChannelBufferSize == 1

\* the local clock runs from 0 to MaxTime seconds
MaxTime == 600

\* ------------------------------------------------------------------------
\* strings
\* ------------------------------------------------------------------------

RECURSIVE IndexFrom(_, _, _)
\* the first position >= i at which old occurs in s, 0 when there is none
IndexFrom(s, old, i) ==
    IF i + Len(old) - 1 > Len(s) THEN 0
    ELSE IF SubSeq(s, i, i + Len(old) - 1) = old THEN i
    ELSE IndexFrom(s, old, i + 1)

\* strings.Index, 1-based; 0 when old does not occur in s
Index(s, old) == IndexFrom(s, old, 1)

\* mutant of HasPrefix: tests that the prefix occurs anywhere (strings.Contains)
HasPrefixContains(s, prefix) == Index(s, prefix) # 0

\* strings.HasPrefix
HasPrefix(s, prefix) ==
    Len(s) >= Len(prefix) /\ SubSeq(s, 1, Len(prefix)) = prefix

RECURSIVE Replace(_, _, _, _)
\* strings.Replace(s, old, new, n) for a non-empty old: the first n
\* non-overlapping occurrences of old are replaced, all of them when n < 0
Replace(s, old, new, n) ==
    LET i == Index(s, old)
    IN  IF n = 0 \/ i = 0 THEN s
        ELSE SubSeq(s, 1, i - 1) \o new
             \o Replace(SubSeq(s, i + Len(old), Len(s)), old, new, n - 1)

\* "refs/heads/"
RefsHeads == <<"r","e","f","s","/","h","e","a","d","s","/">>

\* ------------------------------------------------------------------------
\* push events
\* ------------------------------------------------------------------------

\* the payloads a webhook delivery can carry: two branch pushes (one whose
\* branch name itself contains "refs/heads/"), a tag push, and a ref that
\* contains "refs/heads/" without starting with it. Changes holds the target
\* hashes of pushEvent.Push.Changes.
PushEvents ==
    { [Ref |-> <<"r","e","f","s","/","h","e","a","d","s","/","m">>,
       After |-> "c1", FullName |-> "o/a", InstallationID |-> 1,
       HTMLURL |-> <<"https://bitbucket.org", "/", "o/a">>,
       Changes |-> <<"c1">>],
      [Ref |-> <<"r","e","f","s","/","h","e","a","d","s","/",
                 "r","e","f","s","/","h","e","a","d","s","/","m">>,
       After |-> "c2", FullName |-> "o/b", InstallationID |-> 2,
       HTMLURL |-> <<"https://bitbucket.org", "/", "o/b">>,
       Changes |-> <<"c2">>],
      [Ref |-> <<"r","e","f","s","/","t","a","g","s","/","v">>,
       After |-> "c3", FullName |-> "o/a", InstallationID |-> 1,
       HTMLURL |-> <<"https://bitbucket.org", "/", "o/a">>,
       Changes |-> <<"c3">>],
      [Ref |-> <<"x","r","e","f","s","/","h","e","a","d","s","/","m">>,
       After |-> "c4", FullName |-> "o/b", InstallationID |-> 2,
       HTMLURL |-> <<"https://bitbucket.org", "/", "o/b">>,
       Changes |-> <<"c4">>] }

\* a branch push whose list of changes is empty
PushEventsNoChanges ==
    { [Ref |-> <<"r","e","f","s","/","h","e","a","d","s","/","m">>,
       After |-> "c5", FullName |-> "o/a", InstallationID |-> 1,
       HTMLURL |-> <<"https://bitbucket.org", "/", "o/a">>,
       Changes |-> <<>>] }

NoEvent == [Ref |-> <<>>, After |-> "", FullName |-> "", InstallationID |-> 0,
            HTMLURL |-> <<>>, Changes |-> <<>>]

Ids == 1..MaxEvents
Workers == 1..MaxWorkers


\* ------------------------------------------------------------------------
\* provider API client
\* ------------------------------------------------------------------------

\* http.StatusNotFound
StatusNotFound == 404

\* the access token the provider hands out for each installation id
AccessTokens == <<"tok1", "tok2">>

\* the validity of a credential, in seconds
CredentialValidity == 300

\* the value of the zero AccessToken
NoAccessToken == [Token |-> "", IssuedAt |-> 0, ExpiresIn |-> 0]

\* what GetInstallationToken can return at a given time: an error, or the
\* installation's token, issued at that time for CredentialValidity seconds
InstallationTokenResults(installationID, clock) ==
    {[err |-> TRUE, accessToken |-> NoAccessToken],
     [err |-> FALSE,
      accessToken |-> [Token |-> AccessTokens[installationID],
                       IssuedAt |-> clock, ExpiresIn |-> CredentialValidity]]}

\* what client.Do can return for the manifest request: a transport error,
\* or a response with one of these status codes
HTTPResponses ==
    {[err |-> TRUE, StatusCode |-> 0]} \cup
    {[err |-> FALSE, StatusCode |-> c] : c \in {200, StatusNotFound, 500}}

\* mutant of GetEstafetteManifest: a 404 response counts as an existing manifest
GetEstafetteManifestNo404(response) ==
    [exists |-> ~response.err, err |-> response.err]

\* GetEstafetteManifest: (exists, err) from the response to the GET of
\* .estafette.yaml; every status other than 404 sets exists
GetEstafetteManifest(response) ==
    [exists |-> ~response.err /\ response.StatusCode # StatusNotFound,
     err    |-> response.err]

\* GetAuthenticatedRepositoryURL: the token embedded in the host of the url
GetAuthenticatedRepositoryURL(token, htmlURL) ==
    Replace(htmlURL, <<"https://bitbucket.org">>,
            <<"https://x-token-auth:", token, "@bitbucket.org">>, 0 - 1)

\* what CreateCiBuilderJob can return: TRUE is an error
CiBuilderJobResults == BOOLEAN

\* mutant of CiBuilderParams: every occurrence of "refs/heads/" removed
CiBuilderParamsReplaceAll(pushEvent, url, token) ==
    [RepoFullName |-> pushEvent.FullName,
     RepoURL      |-> url,
     RepoBranch   |-> Replace(pushEvent.Ref, RefsHeads, <<>>, 0 - 1),
     RepoRevision |-> pushEvent.After,
     EnvironmentVariables |-> [ESTAFETTE_GITHUB_API_TOKEN |-> token]]

\* the estafette.CiBuilderParams that CreateJobForGithubPush builds
CiBuilderParams(pushEvent, url, token) ==
    [RepoFullName |-> pushEvent.FullName,
     RepoURL      |-> url,
     RepoBranch   |-> Replace(pushEvent.Ref, RefsHeads, <<>>, 1),
     RepoRevision |-> pushEvent.After,
     EnvironmentVariables |-> [ESTAFETTE_GITHUB_API_TOKEN |-> token]]

\* ------------------------------------------------------------------------
\* docker hub API client: tokens and digests
\* ------------------------------------------------------------------------

\* the amounts by which the local clock advances between two calls
ClockSteps == {150}

\* the repository and tag pairs that are looked up
Lookups == {<<"r1", "t1">>, <<"r1", "t2">>, <<"r2", "t1">>}

\* fmt.Sprintf("%v:%v", repository, tag)
Key(repository, tag) == <<repository, ":", tag>>

\* the validity GetDigest gives a fetched digest, in seconds
DigestExpiresIn == 300

\* the values of the zero DockerHubToken and DockerImageDigest, with the
\* start of the clock standing for the zero time
ZeroToken == [Token |-> "", ExpiresIn |-> 0, IssuedAt |-> 0]
ZeroDigest == [Digest |-> "", ExpiresIn |-> 0, FetchedAt |-> 0]

\* DockerHubToken.ExpiresAt
TokenExpiresAt(t) == t.IssuedAt + t.ExpiresIn

\* mutant of TokenIsExpired: a cached token always counts as expired
TokenIsExpiredAlways(t, clock) == TRUE

\* DockerHubToken.IsExpired: the clock is after ExpiresAt
TokenIsExpired(t, clock) == clock > TokenExpiresAt(t)

\* DockerImageDigest.ExpiresAt
DigestExpiresAt(d) == d.FetchedAt + d.ExpiresIn

\* mutant of DigestIsExpired: the validity is left out
DigestIsExpiredNoTTL(d, clock) == clock > d.FetchedAt

\* DockerImageDigest.IsExpired: the clock is after ExpiresAt
DigestIsExpired(d, clock) == clock > DigestExpiresAt(d)

\* mutant of MapPut: the assignment drops the other entries of the map
MapPutOnly(m, k, v) == [x \in {k} |-> v]

\* m[k] = v on a Go map
MapPut(m, k, v) == [x \in DOMAIN m \cup {k} |-> IF x = k THEN v ELSE m[x]]

\* what GetToken can return at a given time: an error, or the token the
\* registry issued; the call starts no span and increments no counter
GetToken(repository, clock) ==
    {[err |-> TRUE, token |-> ZeroToken, spans |-> <<>>, incs |-> 0],
     [err |-> FALSE,
      token |-> [Token |-> "bearer", ExpiresIn |-> 300, IssuedAt |-> clock],
      spans |-> <<>>, incs |-> 0]}

\* what GetDigest can return at a given time: an error, or a digest record
\* holding the Docker-Content-Digest header of the response, which is empty
\* when the response carries none; the call is wrapped in one span and
\* increments no counter
GetDigest(token, repository, tag, clock) ==
    {[err |-> TRUE, digest |-> ZeroDigest,
      spans |-> <<"DockerHubApi::GetDigest">>, incs |-> 0]} \cup
    {[err |-> FALSE,
      digest |-> [Digest |-> h, ExpiresIn |-> DigestExpiresIn,
                  FetchedAt |-> clock],
      spans |-> <<"DockerHubApi::GetDigest">>, incs |-> 0]
     : h \in {"", "sha256:a"}}

\* mutant of CachedToken: the local variable is used as it is, without the
\* read of the map
CachedTokenSkipped(m, repository, token) == token

\* token = cl.tokens[repository], after the renewal if there was one: the
\* local variable token takes the entry of the map
CachedToken(m, repository, token) == m[repository]

\* mutant of StoreDigest: the result of a failed fetch is stored as well
StoreDigestAlways(m, key, dr) == MapPut(m, key, dr.digest)

\* the digests map after GetDigest returned dr: the return on an error comes
\* before cl.digests[key] = digest
StoreDigest(m, key, dr) == IF dr.err THEN m ELSE MapPut(m, key, dr.digest)

\* GetDigestCached on the maps cl: every way the call can end, with the maps
\* it leaves, what it returns, the fetches it made, what the IsExpired calls
\* it made returned, the spans it started and the counter increments it made
GetDigestCached(cl, repository, tag, clock) ==
    LET key == Key(repository, tag)
        hasDigest == key \in DOMAIN cl.digests
        digestExpired == hasDigest /\ DigestIsExpired(cl.digests[key], clock)
        hasToken == repository \in DOMAIN cl.tokens
    IN  IF hasDigest /\ ~digestExpired
        THEN {[tokens |-> cl.tokens, digests |-> cl.digests,
               digest |-> cl.digests[key], err |-> FALSE,
               tokenFetches |-> 0, digestFetches |-> 0, tokenErr |-> FALSE,
               digestErr |-> FALSE, usedToken |-> ZeroToken,
               digestChecked |-> TRUE, digestExpired |-> FALSE,
               tokenChecked |-> FALSE, tokenExpired |-> FALSE,
               spans |-> <<"DockerHubApi::GetDigestCached">>, incs |-> 0]}
        ELSE
        LET tokenExpired == hasToken /\ TokenIsExpired(cl.tokens[repository], clock)
            renew == ~hasToken \/ tokenExpired
            tokenResults == IF renew THEN GetToken(repository, clock)
                            ELSE {[err |-> FALSE, token |-> ZeroToken,
                                   spans |-> <<>>, incs |-> 0]}
        IN  UNION {
              IF tr.err
              THEN {[tokens |-> cl.tokens, digests |-> cl.digests,
                     digest |-> ZeroDigest, err |-> TRUE,
                     tokenFetches |-> 1, digestFetches |-> 0,
                     tokenErr |-> TRUE, digestErr |-> FALSE,
                     usedToken |-> ZeroToken,
                     digestChecked |-> hasDigest, digestExpired |-> digestExpired,
                     tokenChecked |-> hasToken, tokenExpired |-> tokenExpired,
                     spans |-> <<"DockerHubApi::GetDigestCached">> \o tr.spans,
                     incs |-> tr.incs]}
              ELSE
              LET tokens2 == IF renew THEN MapPut(cl.tokens, repository, tr.token)
                             ELSE cl.tokens
                  token == CachedToken(tokens2, repository, tr.token)
              IN  {[tokens |-> tokens2,
                    digests |-> StoreDigest(cl.digests, key, dr),
                    digest |-> dr.digest, err |-> dr.err,
                    tokenFetches |-> IF renew THEN 1 ELSE 0,
                    digestFetches |-> 1, tokenErr |-> FALSE,
                    digestErr |-> dr.err, usedToken |-> token,
                    digestChecked |-> hasDigest, digestExpired |-> digestExpired,
                    tokenChecked |-> hasToken, tokenExpired |-> tokenExpired,
                    spans |-> <<"DockerHubApi::GetDigestCached">>
                                  \o tr.spans \o dr.spans,
                    incs |-> tr.incs + dr.incs]
                   : dr \in GetDigest(token, repository, tag, clock)}
              : tr \in tokenResults }

\* no GetDigestCached call was made yet
NoCall ==
    [called |-> FALSE, repository |-> "", tag |-> "", at |-> 0,
     before |-> [tokens |-> <<>>, digests |-> <<>>, firstAt |-> <<>>],
     digest |-> ZeroDigest, err |-> FALSE,
     tokenFetches |-> 0, digestFetches |-> 0, tokenErr |-> FALSE,
     digestErr |-> FALSE, usedToken |-> ZeroToken,
     digestChecked |-> FALSE, digestExpired |-> FALSE,
     tokenChecked |-> FALSE, tokenExpired |-> FALSE,
     spans |-> <<>>, incs |-> 0]

\* the goroutines that call GetDigestCached on the one client
Callers == {1, 2}

\* a goroutine that is not inside GetDigestCached
NotCalling ==
    [pc |-> "idle", repository |-> "", tag |-> "",
     token |-> ZeroToken, digest |-> ZeroDigest]

\* ------------------------------------------------------------------------
\* state
\* ------------------------------------------------------------------------

VARIABLES
    mainPc,       \* where main is: "serving", "shutdown", "closing",
                  \* "waiting", "returned", "exited", "fatal", and
                  \* "panicked" when a goroutine's panic ended the process
    stop,         \* TRUE once the stop channel is closed
    wg,           \* the counter of the WaitGroup
    nextId,       \* the number of the next webhook delivery
    event,        \* delivery -> the PushEvent it carries
    handlers,     \* deliveries whose http handler is sending to the channel
    queue,        \* the buffer of the events channel
    loopPc,       \* worker -> "listening" or "stopped"
    stopCalled,   \* worker -> Stop() was called
    quitSenders,  \* worker -> a goroutine is sending on its QuitChannel
    taskPc,       \* delivery -> where the goroutine processing it is
    accessToken,  \* delivery -> the token its pipeline acquired
    manifestReq,  \* delivery -> the manifest requests, their responses and
                  \* what GetEstafetteManifest returned for them
    calls,        \* delivery -> number of credential fetches
    logs,         \* delivery -> the levels of the lines its pipeline logged
    jobs,         \* delivery -> the params of its CreateCiBuilderJob calls
    dequeues,     \* delivery -> how many times it was received from the channel
    atSignal,     \* the deliveries that were mid-pipeline when the OS signal
                  \* arrived, where the run records them (OSSignalNoted)
    now,          \* the local clock, in seconds
    tokens,       \* dockerHubAPIClientImpl.tokens: repository -> DockerHubToken
    digests,      \* dockerHubAPIClientImpl.digests: key -> DockerImageDigest
    last,         \* the latest GetDigestCached call: its arguments, what it
                  \* found, what it fetched and what it returned
    firstAt,      \* key -> the time of the first GetDigestCached call for it
    callers,      \* goroutine -> where its GetDigestCached call is, with the
                  \* arguments and the local variables token and digest
    mapFault      \* TRUE once the runtime has stopped the process on a
                  \* concurrent access to a map

mainVars == <<mainPc, stop, wg>>
hookVars == <<nextId, event, handlers>>
workerVars == <<loopPc, stopCalled, quitSenders>>
taskVars == <<taskPc, accessToken, manifestReq, calls, logs, jobs>>
dispatchVars ==
    <<mainVars, hookVars, queue, dequeues, atSignal, workerVars, taskVars>>
raceVars == <<callers, mapFault>>
cacheVars == <<now, tokens, digests, last, firstAt, raceVars>>
vars == <<dispatchVars, cacheVars>>

\* the deliveries that were received from the channel and whose
\* CreateJobForGithubPush has not returned yet
MidPipeline ==
    {i \in Ids : taskPc[i] \in {"spawned", "start", "manifest", "submit"}}

\* the process is running: main has neither returned nor called log.Fatal,
\* and no goroutine has panicked
Alive == mainPc \notin {"exited", "fatal", "panicked"}

\* the state after handleRequests has returned: the workers listen, the
\* http server serves, no event was delivered yet
Init ==
    /\ mainPc = "serving"
    /\ stop = FALSE
    /\ wg = 0
    /\ nextId = 1
    /\ event = [i \in Ids |-> NoEvent]
    /\ handlers = {}
    /\ queue = <<>>
    /\ loopPc = [w \in Workers |-> "listening"]
    /\ stopCalled = [w \in Workers |-> FALSE]
    /\ quitSenders = [w \in Workers |-> FALSE]
    /\ taskPc = [i \in Ids |-> "none"]
    /\ accessToken = [i \in Ids |-> NoAccessToken]
    /\ manifestReq = [i \in Ids |-> <<>>]
    /\ calls = [i \in Ids |-> 0]
    /\ logs = [i \in Ids |-> <<>>]
    /\ jobs = [i \in Ids |-> <<>>]
    /\ dequeues = [i \in Ids |-> 0]
    /\ atSignal = {}
    /\ now = 0
    /\ tokens = <<>>
    /\ digests = <<>>
    /\ last = NoCall
    /\ firstAt = <<>>
    /\ callers = [c \in Callers |-> NotCalling]
    /\ mapFault = FALSE


\* ------------------------------------------------------------------------
\* the events channel
\* ------------------------------------------------------------------------

\* mutant of ChanCanSend: a send never blocks
ChanCanSendAlways(q) == TRUE

\* a send on the events channel, made with EventChannelBufferSize slots,
\* proceeds only while the buffer has a free slot
ChanCanSend(q) == Len(q) < EventChannelBufferSize

\* mutant of ChanRecv: the received event stays in the buffer
ChanRecvKeeps(q) == [value |-> Head(q), rest |-> q]

\* pushEvent := <-w.EventsChannel takes the oldest event out of the buffer
ChanRecv(q) == [value |-> Head(q), rest |-> Tail(q)]

\* the webhook handler accepts a delivery while the http server serves
HandleWebhook(p) ==
    /\ mainPc = "serving"
    /\ nextId <= MaxEvents
    /\ event' = [event EXCEPT ![nextId] = p]
    /\ handlers' = handlers \cup {nextId}
    /\ nextId' = nextId + 1
    /\ UNCHANGED <<mainVars, queue, dequeues, workerVars, taskVars>>
    /\ UNCHANGED <<atSignal, cacheVars>>

\* the handler's send to the events channel
ChannelSend(i) ==
    /\ Alive
    /\ i \in handlers
    /\ ChanCanSend(queue)
    /\ queue' = Append(queue, i)
    /\ handlers' = handlers \ {i}
    /\ UNCHANGED <<mainVars, nextId, event, dequeues, workerVars, taskVars>>
    /\ UNCHANGED <<atSignal, cacheVars>>

\* ------------------------------------------------------------------------
\* eventWorkerImpl
\* ------------------------------------------------------------------------

\* ListenToEventChannels, case pushEvent := <-w.EventsChannel: the loop
\* starts a goroutine for the event and selects again
Dequeue(w) ==
    /\ Alive
    /\ loopPc[w] = "listening"
    /\ queue # <<>>
    /\ LET r == ChanRecv(queue)
       IN  /\ queue' = r.rest
           /\ dequeues' = [dequeues EXCEPT ![r.value] = @ + 1]
           /\ taskPc' = [taskPc EXCEPT ![r.value] = "spawned"]
    /\ UNCHANGED <<mainVars, hookVars, workerVars, accessToken, manifestReq,
                   calls, logs, jobs>>
    /\ UNCHANGED <<atSignal, cacheVars>>

\* ListenToEventChannels, case <-w.QuitChannel: the loop returns
ReceiveQuit(w) ==
    /\ Alive
    /\ loopPc[w] = "listening"
    /\ quitSenders[w]
    /\ loopPc' = [loopPc EXCEPT ![w] = "stopped"]
    /\ quitSenders' = [quitSenders EXCEPT ![w] = FALSE]
    /\ UNCHANGED <<mainVars, hookVars, queue, dequeues, stopCalled, taskVars>>
    /\ UNCHANGED <<atSignal, cacheVars>>

\* the dispatcher calls Stop() on its workers once the stop channel is closed
DispatcherStops == stop

\* mutant of StopSendsQuit: Stop returns without starting the sender
StopSendsNothing(w) ==
    /\ stopCalled' = [stopCalled EXCEPT ![w] = TRUE]
    /\ UNCHANGED quitSenders

\* the body of Stop: go func() { w.QuitChannel <- true }()
StopSendsQuit(w) ==
    /\ stopCalled' = [stopCalled EXCEPT ![w] = TRUE]
    /\ quitSenders' = [quitSenders EXCEPT ![w] = TRUE]

\* Stop: starts a goroutine that sends on the QuitChannel, and returns
Stop(w) ==
    /\ Alive
    /\ DispatcherStops
    /\ ~stopCalled[w]
    /\ StopSendsQuit(w)
    /\ UNCHANGED <<mainVars, hookVars, queue, dequeues, loopPc, taskVars>>
    /\ UNCHANGED <<atSignal, cacheVars>>

\* Stop called once on a worker by its owner, at any moment
StopOnce(w) ==
    /\ Alive
    /\ ~stopCalled[w]
    /\ StopSendsQuit(w)
    /\ UNCHANGED <<mainVars, hookVars, queue, dequeues, loopPc, taskVars>>
    /\ UNCHANGED <<atSignal, cacheVars>>

\* mutant of PushEventOf: the goroutines share one pushEvent variable, which
\* holds the event received last
PushEventOfShared(i) ==
    event[CHOOSE j \in Ids :
              dequeues[j] > 0 /\ \A k \in Ids : k > j => dequeues[k] = 0]

\* the pushEvent that the goroutine of delivery i works on: the variable
\* declared by the receive that started it, which no other goroutine sees
PushEventOf(i) == event[i]

\* the goroutine of an event: w.WaitGroup.Add(1)
WaitGroupAdd(i) ==
    /\ Alive
    /\ taskPc[i] = "spawned"
    /\ wg' = wg + 1
    /\ taskPc' = [taskPc EXCEPT ![i] = "start"]
    /\ UNCHANGED <<mainPc, stop, hookVars, queue, dequeues, workerVars,
                   accessToken, manifestReq, calls, logs, jobs>>
    /\ UNCHANGED <<atSignal, cacheVars>>

\* CreateJobForGithubPush returns for delivery i, and its goroutine calls
\* w.WaitGroup.Done() and ends
Returns(i) ==
    /\ taskPc' = [taskPc EXCEPT ![i] = "done"]
    /\ wg' = wg - 1

\* mutant of GoesOn: the pipeline starts over instead of going on
GoesOnFromStart(i, pc) ==
    /\ taskPc' = [taskPc EXCEPT ![i] = "start"]
    /\ UNCHANGED wg

\* CreateJobForGithubPush goes on to its next call
GoesOn(i, pc) ==
    /\ taskPc' = [taskPc EXCEPT ![i] = pc]
    /\ UNCHANGED wg

\* mutant of CredentialFetchFailed: the error is not looked at
CredentialFetchFailedNever(r) == FALSE

\* if err != nil, after GetInstallationToken
CredentialFetchFailed(r) == r.err

\* CreateJobForGithubPush up to the token: the ref check, then
\* GetInstallationToken
CreateJobGetToken(i) ==
    /\ Alive
    /\ taskPc[i] = "start"
    /\ IF ~HasPrefix(PushEventOf(i).Ref, RefsHeads)
       THEN /\ Returns(i)
            /\ UNCHANGED <<accessToken, calls, logs>>
       ELSE \E r \in InstallationTokenResults(PushEventOf(i).InstallationID, now) :
            /\ calls' = [calls EXCEPT ![i] = @ + 1]
            /\ IF CredentialFetchFailed(r)
               THEN /\ logs' = [logs EXCEPT ![i] = Append(@, "error")]
                    /\ Returns(i)
                    /\ UNCHANGED accessToken
               ELSE /\ accessToken' = [accessToken EXCEPT ![i] = r.accessToken]
                    /\ GoesOn(i, "manifest")
                    /\ UNCHANGED logs
    /\ UNCHANGED <<mainPc, stop, hookVars, queue, dequeues, workerVars,
                   manifestReq, jobs>>
    /\ UNCHANGED <<atSignal, cacheVars>>

\* CreateJobForGithubPush, the manifest: GetEstafetteManifest and the
\* three ways on from it. The request is built from
\* pushEvent.Push.Changes[0]: with no changes the index is out of range, the
\* goroutine panics and, nothing recovering, the process ends.
CreateJobGetManifest(i) ==
    /\ Alive
    /\ taskPc[i] = "manifest"
    /\ IF Len(PushEventOf(i).Changes) = 0
       THEN /\ mainPc' = "panicked"
            /\ UNCHANGED <<stop, wg, taskPc, manifestReq, logs>>
       ELSE
       \E response \in HTTPResponses :
       LET m == GetEstafetteManifest(response)
       IN  /\ manifestReq' = [manifestReq EXCEPT ![i] = Append(@,
                  [FullName |-> PushEventOf(i).FullName, Hash |-> PushEventOf(i).Changes[1],
                   err |-> response.err, StatusCode |-> response.StatusCode,
                   exists |-> m.exists, manifestErr |-> m.err])]
           /\ IF m.err
              THEN /\ logs' = [logs EXCEPT ![i] = Append(@, "error")]
                   /\ Returns(i)
              ELSE IF ~m.exists
              THEN /\ logs' = [logs EXCEPT ![i] = Append(@, "info")]
                   /\ Returns(i)
              ELSE /\ logs' = [logs EXCEPT ![i] = Append(@, "debug")]
                   /\ GoesOn(i, "submit")
           /\ UNCHANGED <<mainPc, stop>>
    /\ UNCHANGED <<hookVars, queue, dequeues, workerVars,
                   accessToken, calls, jobs>>
    /\ UNCHANGED <<atSignal, cacheVars>>

\* CreateJobForGithubPush, the job: the authenticated url, the params and
\* CreateCiBuilderJob
CreateJobSubmit(i) ==
    /\ Alive
    /\ taskPc[i] = "submit"
    /\ LET url == GetAuthenticatedRepositoryURL(accessToken[i].Token,
                                                PushEventOf(i).HTMLURL)
           ciBuilderParams == CiBuilderParams(PushEventOf(i), url, accessToken[i].Token)
       IN  \E err \in CiBuilderJobResults :
           /\ jobs' = [jobs EXCEPT ![i] = Append(@, ciBuilderParams)]
           /\ logs' = [logs EXCEPT ![i] =
                          Append(@, IF err THEN "error" ELSE "info")]
    /\ Returns(i)
    /\ UNCHANGED <<mainPc, stop, hookVars, queue, dequeues, workerVars,
                   accessToken, manifestReq, calls>>
    /\ UNCHANGED <<atSignal, cacheVars>>

\* ------------------------------------------------------------------------
\* main
\* ------------------------------------------------------------------------

\* <-sigs: a signal arrives and main calls srv.Shutdown
OSSignal ==
    /\ mainPc = "serving"
    /\ mainPc' = "shutdown"
    /\ UNCHANGED <<stop, wg, hookVars, queue, dequeues, workerVars, taskVars>>
    /\ UNCHANGED <<atSignal, cacheVars>>

\* OSSignal, in a run that notes which pipelines were in progress then
OSSignalNoted ==
    /\ mainPc = "serving"
    /\ mainPc' = "shutdown"
    /\ atSignal' = MidPipeline
    /\ UNCHANGED <<stop, wg, hookVars, queue, dequeues, workerVars, taskVars>>
    /\ UNCHANGED cacheVars

\* srv.Shutdown returns nil: no handler is active any more
ServerShutdown ==
    /\ mainPc = "shutdown"
    /\ handlers = {}
    /\ mainPc' = "closing"
    /\ UNCHANGED <<stop, wg, hookVars, queue, dequeues, workerVars, taskVars>>
    /\ UNCHANGED <<atSignal, cacheVars>>

\* srv.Shutdown returns an error: log.Fatal ends the process
ServerShutdownFails ==
    /\ mainPc = "shutdown"
    /\ mainPc' = "fatal"
    /\ UNCHANGED <<stop, wg, hookVars, queue, dequeues, workerVars, taskVars>>
    /\ UNCHANGED <<atSignal, cacheVars>>

\* mutant of MainAtClose: close(stop) does not wait for srv.Shutdown
MainAtCloseEarly == mainPc \in {"shutdown", "closing"}

\* main has come to close(stop): srv.Shutdown has returned nil
MainAtClose == mainPc = "closing"

\* close(stop)
CloseStop ==
    /\ MainAtClose
    /\ stop' = TRUE
    /\ mainPc' = "waiting"
    /\ UNCHANGED <<wg, hookVars, queue, dequeues, workerVars, taskVars>>
    /\ UNCHANGED <<atSignal, cacheVars>>

\* wg.Wait() returns when the counter is zero
WaitGroupWait ==
    /\ mainPc = "waiting"
    /\ wg = 0
    /\ mainPc' = "returned"
    /\ UNCHANGED <<stop, wg, hookVars, queue, dequeues, workerVars, taskVars>>
    /\ UNCHANGED <<atSignal, cacheVars>>

\* main returns and the process ends
MainReturns ==
    /\ mainPc = "returned"
    /\ mainPc' = "exited"
    /\ UNCHANGED <<stop, wg, hookVars, queue, dequeues, workerVars, taskVars>>
    /\ UNCHANGED <<atSignal, cacheVars>>

\* the steps of the program and of the webhook's senders
Steps ==
    \/ \E p \in PushEvents : HandleWebhook(p)
    \/ \E i \in Ids : ChannelSend(i)
    \/ \E w \in Workers : Dequeue(w)
    \/ \E w \in Workers : ReceiveQuit(w)
    \/ \E w \in Workers : Stop(w)
    \/ \E i \in Ids : WaitGroupAdd(i)
    \/ \E i \in Ids : CreateJobGetToken(i)
    \/ \E i \in Ids : CreateJobGetManifest(i)
    \/ \E i \in Ids : CreateJobSubmit(i)
    \/ ServerShutdown
    \/ ServerShutdownFails
    \/ CloseStop
    \/ WaitGroupWait
    \/ MainReturns

Next ==
    \/ Steps
    \/ OSSignal

Spec == Init /\ [][Next]_vars

\* the same program, receiving pushes without changes as well
AnyPushNext ==
    \/ Next
    \/ \E p \in PushEventsNoChanges : HandleWebhook(p)

AnyPushSpec == Init /\ [][AnyPushNext]_vars

\* the same program in runs that note the pipelines in progress at the
\* signal, under the scheduling of the Go runtime: a goroutine that can take
\* its next step takes it in the end, and so does main. Nothing is assumed
\* of the senders of webhooks, of the signal, or of srv.Shutdown beyond its
\* returning.
ShutdownNext ==
    \/ Steps
    \/ OSSignalNoted

Fairness ==
    /\ \A i \in Ids : WF_vars(ChannelSend(i))
    /\ \A w \in Workers : WF_vars(Dequeue(w))
    /\ \A w \in Workers : WF_vars(ReceiveQuit(w))
    /\ \A w \in Workers : WF_vars(Stop(w))
    /\ \A i \in Ids : WF_vars(WaitGroupAdd(i))
    /\ \A i \in Ids : WF_vars(CreateJobGetToken(i))
    /\ \A i \in Ids : WF_vars(CreateJobGetManifest(i))
    /\ \A i \in Ids : WF_vars(CreateJobSubmit(i))
    /\ WF_vars(ServerShutdown \/ ServerShutdownFails)
    /\ WF_vars(CloseStop)
    /\ WF_vars(WaitGroupWait)
    /\ WF_vars(MainReturns)

ShutdownSpec == Init /\ [][ShutdownNext]_vars /\ Fairness

\* a worker on its own: events arrive on its channel, its loop receives
\* them and starts their goroutines, and Stop is called on it once at any
\* moment. A select with a ready case takes a case, and among several ready
\* cases it chooses at random, so the quit case, ready from the moment the
\* sender started, is taken in the end.
WorkerNext ==
    \/ \E p \in PushEvents : HandleWebhook(p)
    \/ \E i \in Ids : ChannelSend(i)
    \/ \E w \in Workers : Dequeue(w)
    \/ \E w \in Workers : ReceiveQuit(w)
    \/ \E w \in Workers : StopOnce(w)

WorkerFairness == \A w \in Workers : WF_vars(ReceiveQuit(w))

WorkerSpec == Init /\ [][WorkerNext]_vars /\ WorkerFairness

\* ------------------------------------------------------------------------
\* calls of the docker hub API client
\* ------------------------------------------------------------------------

\* one call of GetDigestCached, from its entry to its return
GetDigestCachedReturns(repository, tag) ==
    \E o \in GetDigestCached([tokens |-> tokens, digests |-> digests],
                             repository, tag, now) :
        /\ tokens' = o.tokens
        /\ digests' = o.digests
        /\ last' = [called |-> TRUE, repository |-> repository, tag |-> tag,
                    at |-> now,
                    before |-> [tokens |-> tokens, digests |-> digests,
                                firstAt |-> firstAt],
                    digest |-> o.digest, err |-> o.err,
                    tokenFetches |-> o.tokenFetches,
                    digestFetches |-> o.digestFetches,
                    tokenErr |-> o.tokenErr,
                    digestErr |-> o.digestErr,
                    usedToken |-> o.usedToken,
                    digestChecked |-> o.digestChecked,
                    digestExpired |-> o.digestExpired,
                    tokenChecked |-> o.tokenChecked,
                    tokenExpired |-> o.tokenExpired,
                    spans |-> o.spans, incs |-> o.incs]
        /\ UNCHANGED <<now, raceVars, dispatchVars>>

\* a call of GetDigestCached
GetDigestCachedCall(repository, tag) ==
    /\ GetDigestCachedReturns(repository, tag)
    /\ UNCHANGED firstAt

\* a call of GetDigestCached, with the time of the first call for each
\* repository and tag kept
GetDigestCachedLookup(repository, tag) ==
    /\ GetDigestCachedReturns(repository, tag)
    /\ firstAt' = IF Key(repository, tag) \in DOMAIN firstAt THEN firstAt
                  ELSE MapPut(firstAt, Key(repository, tag), now)

\* time passes
Tick ==
    /\ \E d \in ClockSteps :
        /\ now + d <= MaxTime
        /\ now' = now + d
    /\ UNCHANGED <<tokens, digests, last, firstAt, raceVars, dispatchVars>>

CacheNext ==
    \/ \E l \in Lookups : GetDigestCachedCall(l[1], l[2])
    \/ Tick

CacheSpec == Init /\ [][CacheNext]_vars

\* the lookups whose first call is kept track of
TrackedLookups == {l \in Lookups : l[1] = "r1"}

LookupNext ==
    \/ \E l \in TrackedLookups : GetDigestCachedLookup(l[1], l[2])
    \/ Tick

LookupSpec == Init /\ [][LookupNext]_vars

\* ------------------------------------------------------------------------
\* GetDigestCached statement by statement, called by several goroutines
\* ------------------------------------------------------------------------

\* the statements of GetDigestCached that read a map, and those that write one
TokensReads == {"readTokens", "readToken"}
TokensWrites == {"writeTokens"}
DigestsReads == {"readDigests"}
DigestsWrites == {"writeDigests"}

\* goroutine c is about to access a map that another goroutine is about to
\* access as well, one of the two writing: nothing orders the two accesses
Racing(c) ==
    \E d \in Callers \ {c} :
        \/ /\ callers[c].pc \in TokensWrites
           /\ callers[d].pc \in TokensReads \cup TokensWrites
        \/ /\ callers[c].pc \in TokensReads
           /\ callers[d].pc \in TokensWrites
        \/ /\ callers[c].pc \in DigestsWrites
           /\ callers[d].pc \in DigestsReads \cup DigestsWrites
        \/ /\ callers[c].pc \in DigestsReads
           /\ callers[d].pc \in DigestsWrites

\* goroutine c moves to pc, its other local variables as they are
CallerAt(c, pc) == callers' = [callers EXCEPT ![c].pc = pc]

\* a goroutine calls GetDigestCached(ctx, repository, tag)
CallStarts(c, repository, tag) ==
    /\ ~mapFault
    /\ callers[c].pc = "idle"
    /\ callers' = [callers EXCEPT ![c] =
           [NotCalling EXCEPT !.pc = "readDigests",
                              !.repository = repository, !.tag = tag]]
    /\ UNCHANGED <<now, tokens, digests, last, firstAt, mapFault, dispatchVars>>

\* val, ok := cl.digests[key]; ok && !val.IsExpired(): return the entry, or
\* go on to the token
ReadDigests(c) ==
    /\ ~mapFault
    /\ callers[c].pc = "readDigests"
    /\ LET key == Key(callers[c].repository, callers[c].tag)
       IN  IF key \in DOMAIN digests /\ ~DigestIsExpired(digests[key], now)
           THEN callers' = [callers EXCEPT ![c] =
                                [NotCalling EXCEPT !.digest = digests[key]]]
           ELSE CallerAt(c, "readTokens")
    /\ UNCHANGED <<now, tokens, digests, last, firstAt, mapFault, dispatchVars>>

\* val, ok := cl.tokens[repository]; !ok || val.IsExpired(): renew the
\* token, or go on with the cached one
ReadTokens(c) ==
    /\ ~mapFault
    /\ callers[c].pc = "readTokens"
    /\ LET repository == callers[c].repository
       IN  IF \/ repository \notin DOMAIN tokens
              \/ TokenIsExpired(tokens[repository], now)
           THEN CallerAt(c, "getToken")
           ELSE CallerAt(c, "readToken")
    /\ UNCHANGED <<now, tokens, digests, last, firstAt, mapFault, dispatchVars>>

\* token, err = cl.GetToken(repository), and the return on an error
GetTokenReturns(c) ==
    /\ ~mapFault
    /\ callers[c].pc = "getToken"
    /\ \E tr \in GetToken(callers[c].repository, now) :
           IF tr.err
           THEN callers' = [callers EXCEPT ![c] = NotCalling]
           ELSE callers' = [callers EXCEPT ![c].pc = "writeTokens",
                                           ![c].token = tr.token]
    /\ UNCHANGED <<now, tokens, digests, last, firstAt, mapFault, dispatchVars>>

\* cl.tokens[repository] = token
WriteTokens(c) ==
    /\ ~mapFault
    /\ callers[c].pc = "writeTokens"
    /\ tokens' = MapPut(tokens, callers[c].repository, callers[c].token)
    /\ CallerAt(c, "readToken")
    /\ UNCHANGED <<now, digests, last, firstAt, mapFault, dispatchVars>>

\* token = cl.tokens[repository]
ReadToken(c) ==
    /\ ~mapFault
    /\ callers[c].pc = "readToken"
    /\ callers' = [callers EXCEPT ![c].pc = "getDigest",
                                  ![c].token = tokens[callers[c].repository]]
    /\ UNCHANGED <<now, tokens, digests, last, firstAt, mapFault, dispatchVars>>

\* digest, err = cl.GetDigest(ctx, token, repository, tag), and the return
\* on an error
GetDigestReturns(c) ==
    /\ ~mapFault
    /\ callers[c].pc = "getDigest"
    /\ \E dr \in GetDigest(callers[c].token, callers[c].repository,
                           callers[c].tag, now) :
           IF dr.err
           THEN callers' = [callers EXCEPT ![c] = NotCalling]
           ELSE callers' = [callers EXCEPT ![c].pc = "writeDigests",
                                           ![c].digest = dr.digest]
    /\ UNCHANGED <<now, tokens, digests, last, firstAt, mapFault, dispatchVars>>

\* cl.digests[key] = digest, and the return
WriteDigests(c) ==
    /\ ~mapFault
    /\ callers[c].pc = "writeDigests"
    /\ digests' = MapPut(digests, Key(callers[c].repository, callers[c].tag),
                         callers[c].digest)
    /\ callers' = [callers EXCEPT ![c] =
                       [NotCalling EXCEPT !.digest = callers[c].digest]]
    /\ UNCHANGED <<now, tokens, last, firstAt, mapFault, dispatchVars>>

\* a map access that races with another one: besides completing as above, it
\* can make the runtime stop the process ("fatal error: concurrent map
\* writes", "concurrent map read and map write")
ConcurrentMapAccess(c) ==
    /\ ~mapFault
    /\ Racing(c)
    /\ mapFault' = TRUE
    /\ UNCHANGED <<now, tokens, digests, last, firstAt, callers, dispatchVars>>

RaceNext ==
    \/ \E c \in Callers : \E l \in Lookups : CallStarts(c, l[1], l[2])
    \/ \E c \in Callers : ReadDigests(c)
    \/ \E c \in Callers : ReadTokens(c)
    \/ \E c \in Callers : GetTokenReturns(c)
    \/ \E c \in Callers : WriteTokens(c)
    \/ \E c \in Callers : ReadToken(c)
    \/ \E c \in Callers : GetDigestReturns(c)
    \/ \E c \in Callers : WriteDigests(c)
    \/ \E c \in Callers : ConcurrentMapAccess(c)

RaceSpec == Init /\ [][RaceNext]_vars

\* ------------------------------------------------------------------------
\* the pipelines while time passes
\* ------------------------------------------------------------------------

TimedNext ==
    \/ \E p \in PushEvents : HandleWebhook(p)
    \/ \E i \in Ids : ChannelSend(i)
    \/ \E w \in Workers : Dequeue(w)
    \/ \E i \in Ids : WaitGroupAdd(i)
    \/ \E i \in Ids : CreateJobGetToken(i)
    \/ \E i \in Ids : CreateJobGetManifest(i)
    \/ \E i \in Ids : CreateJobSubmit(i)
    \/ Tick

TimedSpec == Init /\ [][TimedNext]_vars

\* ------------------------------------------------------------------------
\* properties of CreateJobForGithubPush
\* ------------------------------------------------------------------------

\* ref starts with "refs/heads/", character by character
StartsWithRefsHeads(ref) ==
    /\ Len(ref) >= Len(RefsHeads)
    /\ \A k \in 1..Len(RefsHeads) : ref[k] = RefsHeads[k]

\* ref without its first Len("refs/heads/") characters
WithoutRefsHeads(ref) ==
    [k \in 1..(Len(ref) - Len(RefsHeads)) |-> ref[k + Len(RefsHeads)]]

\* CreateJobForGithubPush has returned for delivery i
PipelineOver(i) == taskPc[i] = "done"

\* the provider answered the manifest request of delivery i with status code
ManifestAnswered(i, code) ==
    /\ Len(manifestReq[i]) > 0
    /\ ~manifestReq[i][Len(manifestReq[i])].err
    /\ manifestReq[i][Len(manifestReq[i])].StatusCode = code

\* C1: a push event whose ref does not start with "refs/heads/" causes no
\* credential fetch, no pipeline-definition fetch and no job submission,
\* at any moment of its processing.
C1_NonBranchRefNoCalls ==
    \A i \in Ids :
        (event[i] # NoEvent /\ ~StartsWithRefsHeads(event[i].Ref)) =>
            /\ calls[i] = 0
            /\ manifestReq[i] = <<>>
            /\ jobs[i] = <<>>

\* a ref that holds "refs/heads/" after its first character went through
\* CreateJobForGithubPush
C1_Witness ==
    \E i \in Ids :
        /\ PipelineOver(i)
        /\ ~StartsWithRefsHeads(event[i].Ref)
        /\ Index(event[i].Ref, RefsHeads) > 1
        /\ calls[i] = 0

\* C2: once a push event with a branch ref whose pipeline definition the
\* provider returned (status 200) is processed, exactly one job was
\* submitted, its branch is the ref without the "refs/heads/" prefix and its
\* revision is the event's After.
C2_OneJobForBranchPush ==
    \A i \in Ids :
        (/\ PipelineOver(i)
         /\ StartsWithRefsHeads(event[i].Ref)
         /\ ManifestAnswered(i, 200)) =>
            /\ Len(jobs[i]) = 1
            /\ jobs[i][1].RepoBranch = WithoutRefsHeads(event[i].Ref)
            /\ jobs[i][1].RepoRevision = event[i].After

\* a job was submitted for a branch whose name itself holds "refs/heads/"
C2_Witness ==
    \E i \in Ids :
        /\ taskPc[i] = "done"
        /\ ManifestAnswered(i, 200)
        /\ Index(WithoutRefsHeads(event[i].Ref), RefsHeads) # 0
        /\ Len(jobs[i]) = 1
        /\ jobs[i][1].RepoBranch = RefsHeads \o <<"m">>

\* C3: once a push event whose definition fetch was answered "not found"
\* is processed, no job was submitted and the only line logged is the
\* informational skip.
C3_NotFoundSkips ==
    \A i \in Ids :
        (PipelineOver(i) /\ ManifestAnswered(i, StatusNotFound)) =>
            /\ jobs[i] = <<>>
            /\ logs[i] = <<"info">>

\* a pipeline ended on a 404 answer
C3_Witness ==
    \E i \in Ids :
        /\ taskPc[i] = "done"
        /\ ManifestAnswered(i, StatusNotFound)
        /\ logs[i] = <<"info">>

\* C4: job parameters exist for a revision only if the provider confirmed
\* (status 200) a pipeline definition for that same revision; an answer that
\* is neither a success nor "not found" never leads to job parameters.
C4_JobOnlyForConfirmedDefinition ==
    \A i \in Ids :
        jobs[i] # <<>> =>
            /\ ManifestAnswered(i, 200)
            /\ manifestReq[i][Len(manifestReq[i])].Hash = jobs[i][1].RepoRevision

\* ------------------------------------------------------------------------
\* properties of the worker pool, the events channel and the shutdown
\* ------------------------------------------------------------------------

\* the elements of a sequence
Range(q) == {q[k] : k \in 1..Len(q)}

\* C5: the shutdown operation (close(stop), then wg.Wait()) returns only
\* after the pipeline of every dequeued event has completed: once the wait
\* has returned no dequeued event is still pending or running.
C5_WaitReturnsAfterPipelines ==
    mainPc \in {"returned", "exited"} => MidPipeline = {}

\* C6: after the shutdown operation has returned and Stop() has returned for
\* the workers, no worker receives a further event from the events channel.
C6_NoDequeueAfterShutdown ==
    [][(mainPc = "returned" /\ \A w \in Workers : stopCalled[w]) =>
           dequeues' = dequeues]_vars

\* C7: at most MaxWorkers events are in flight (received from the channel,
\* pipeline not finished) at any moment, as it is when no worker receives an
\* event before the pipeline of its previous event has completed.
C7_AtMostNInFlight == Cardinality(MidPipeline) <= MaxWorkers

\* C8: the events channel never holds more events than its capacity; while
\* it is full no send completes, the only change is a receive; a send adds
\* the event at the end and leaves the queued events as they are; and every
\* delivery whose send completed is in the channel or was received.
C8_BoundedQueueBlocksProducer ==
    /\ [](Len(queue) <= EventChannelBufferSize)
    /\ [](\A i \in Ids :
             (event[i] # NoEvent /\ i \notin handlers) =>
                 (i \in Range(queue) \/ dequeues[i] > 0))
    /\ [][/\ (Len(queue) = EventChannelBufferSize /\ queue' # queue) =>
                 (queue' = Tail(queue) /\ handlers' = handlers)
          /\ queue' # queue =>
                 \/ (queue # <<>> /\ queue' = Tail(queue))
                 \/ \E i \in handlers :
                        /\ queue' = Append(queue, i)
                        /\ handlers' = handlers \ {i}]_vars

\* the channel is full and a handler is blocked in its send
C8_Witness ==
    /\ Len(queue) = EventChannelBufferSize
    /\ \E i \in handlers : \A k \in 1..Len(queue) : queue[k] # i

LastKey == Key(last.repository, last.tag)

\* the latest call found an entry for its key in the digests map
LastFound == last.called /\ LastKey \in DOMAIN last.before.digests

\* the entry the latest call found
LastPrior == last.before.digests[LastKey]

\* the latest call was made before the entry it found reached its ExpiresAt
LastWithinTTL == LastFound /\ last.at < LastPrior.FetchedAt + LastPrior.ExpiresIn

\* the latest call was made after the ExpiresAt of the entry it found
LastAfterTTL == LastFound /\ last.at > LastPrior.FetchedAt + LastPrior.ExpiresIn

\* the latest call was made with both maps empty
LastOnEmptyCache ==
    last.called /\ last.before.digests = <<>> /\ last.before.tokens = <<>>

\* C10 as stated: a call with an empty cache invokes the digest fetch
\* exactly once; a call within the TTL of the entry invokes it zero times and
\* returns the entry; a call after the TTL invokes it exactly once and
\* replaces the entry.
C10_AsStated ==
    /\ LastOnEmptyCache => last.digestFetches = 1
    /\ LastWithinTTL => (last.digestFetches = 0 /\ last.digest = LastPrior)
    /\ LastAfterTTL =>
           /\ last.digestFetches = 1
           /\ digests[LastKey] = last.digest
           /\ last.digest.FetchedAt = last.at

\* C10, amended: a call with an empty cache invokes the token fetch once and
\* the digest fetch exactly once unless that token fetch fails, and then not
\* at all; a call within the TTL of the entry invokes no fetch, returns the
\* entry and leaves the maps alone; a call after the TTL invokes the digest
\* fetch exactly once unless a token fetch it needs fails, replaces the entry
\* when the fetch succeeds and leaves it when it fails.
C10_CacheAside ==
    /\ LastOnEmptyCache =>
           /\ last.tokenFetches = 1
           /\ last.digestFetches = (IF last.tokenErr THEN 0 ELSE 1)
    /\ LastWithinTTL =>
           /\ last.digestFetches = 0 /\ last.tokenFetches = 0
           /\ ~last.err /\ last.digest = LastPrior
           /\ digests = last.before.digests /\ tokens = last.before.tokens
    /\ LastAfterTTL =>
           /\ last.digestFetches = (IF last.tokenErr THEN 0 ELSE 1)
           /\ ~last.err => (/\ digests[LastKey] = last.digest
                            /\ last.digest.FetchedAt = last.at)
           /\ last.err => digests[LastKey] = LastPrior

\* an entry was replaced by a call made after its TTL
C10_Witness ==
    /\ LastAfterTTL
    /\ ~last.err
    /\ last.digestFetches = 1
    /\ digests[LastKey].FetchedAt = last.at
    /\ digests[LastKey] # LastPrior

\* ------------------------------------------------------------------------
\* properties of the registry digest lookup
\* ------------------------------------------------------------------------

\* the latest call was the first one ever made for its repository and tag
LastNeverQueried == last.called /\ LastKey \notin DOMAIN last.before.firstAt

\* the latest call repeats a lookup whose first call was at most 300 s ago
LastRepeatWithin300 ==
    /\ last.called
    /\ LastKey \in DOMAIN last.before.firstAt
    /\ last.at - last.before.firstAt[LastKey] <= 300

\* the latest call found a token of its repository that had not passed its
\* ExpiresAt
LastTokenValid ==
    /\ last.called
    /\ last.repository \in DOMAIN last.before.tokens
    /\ last.at <= last.before.tokens[last.repository].IssuedAt
                    + last.before.tokens[last.repository].ExpiresIn

\* the latest call found an entry for its key that was fetched at most
\* 300 s ago
LastEntryWithin300 == LastFound /\ last.at - LastPrior.FetchedAt <= 300

\* C11 as stated: the first lookup of a repository and tag triggers exactly
\* one token fetch and exactly one digest fetch, whatever was looked up
\* before; a repeated lookup within 300 seconds triggers neither.
C11_AsStated ==
    /\ LastNeverQueried => (last.tokenFetches = 1 /\ last.digestFetches = 1)
    /\ LastRepeatWithin300 => (last.tokenFetches = 0 /\ last.digestFetches = 0)

\* C11, amended: a lookup that finds no digest entry for its repository and
\* tag triggers one token fetch when the repository has no cached token or an
\* expired one and none when it has a valid one, and exactly one digest fetch
\* unless the token fetch fails, and then none; a lookup at most 300 seconds
\* after the fetch of the entry it finds triggers neither.
C11_DigestLookup ==
    /\ (last.called /\ ~LastFound) =>
           /\ last.tokenFetches = (IF LastTokenValid THEN 0 ELSE 1)
           /\ last.digestFetches = (IF last.tokenErr THEN 0 ELSE 1)
           /\ last.tokenErr => last.tokenFetches = 1
    /\ LastEntryWithin300 => (last.tokenFetches = 0 /\ last.digestFetches = 0)

\* the first lookup of a tag used the token cached by the lookup of another
\* tag of the same repository
C11_Witness ==
    /\ LastNeverQueried
    /\ ~LastFound
    /\ LastTokenValid
    /\ last.tokenFetches = 0
    /\ last.digestFetches = 1
    /\ \E k \in DOMAIN last.before.firstAt : k[1] = last.repository

\* C12: when the token fetch or the digest fetch of a lookup fails, the
\* lookup returns an error and leaves the cache of the failed fetch as it
\* was: the digests map after any failure, the tokens map after a failed
\* token fetch; the entry of the key is then absent or past its ExpiresAt, and
\* the next lookup of the key fetches again.
C12_FailedFetchLeavesEntry ==
    /\ []((last.called /\ (last.tokenErr \/ last.digestErr)) =>
             /\ last.err
             /\ digests = last.before.digests
             /\ last.tokenErr => tokens = last.before.tokens
             /\ \/ LastKey \notin DOMAIN digests
                \/ last.at > digests[LastKey].FetchedAt + digests[LastKey].ExpiresIn)
    /\ [][(/\ last.called /\ last.err
           /\ last' # last
           /\ last'.repository = last.repository /\ last'.tag = last.tag) =>
              last'.tokenFetches + last'.digestFetches >= 1]_vars

\* the refresh of a stale entry failed in the digest fetch and the stale
\* entry is still in the map
C12_Witness ==
    /\ LastAfterTTL
    /\ last.digestErr /\ last.err
    /\ last.digestFetches = 1
    /\ digests[LastKey] = LastPrior

\* C13: the accesses of the goroutines to the tokens map and to the digests
\* map are serialized: at no moment are two goroutines about to access the
\* same map with one of them writing, and the runtime never stops the process
\* on a concurrent map access.
C13_MapAccessSerialized ==
    /\ \A c \in Callers : ~Racing(c)
    /\ ~mapFault

\* the token of its repository that the latest call found
LastPriorToken == last.before.tokens[last.repository]

\* C14: every IsExpired call made by a lookup returns TRUE exactly when the
\* time of the call is at or after the ExpiresAt (FetchedAt or IssuedAt plus
\* ExpiresIn) of the digest or token it is asked about: TRUE at the instant
\* ExpiresAt and later, FALSE before.
C14_ExpiredFromExpiresAt ==
    /\ last.digestChecked =>
           (last.digestExpired <=>
                last.at >= LastPrior.FetchedAt + LastPrior.ExpiresIn)
    /\ last.tokenChecked =>
           (last.tokenExpired <=>
                last.at >= LastPriorToken.IssuedAt + LastPriorToken.ExpiresIn)

\* ------------------------------------------------------------------------
\* properties of the provider calls of a pipeline
\* ------------------------------------------------------------------------

\* C15: GetEstafetteManifest returns exists = false and no error when the
\* provider answers 404, and an error, never exists = true, when the request
\* fails or is answered with any status other than 200 and 404.
C15_NotFoundOrError ==
    \A i \in Ids : \A k \in 1..Len(manifestReq[i]) :
        LET r == manifestReq[i][k]
        IN  /\ (~r.err /\ r.StatusCode = StatusNotFound) =>
                   (~r.exists /\ ~r.manifestErr)
            /\ (r.err \/ r.StatusCode \notin {200, StatusNotFound}) =>
                   (r.manifestErr /\ ~r.exists)

\* C16: whenever a pipeline embeds its credential in the clone url and the
\* job parameters, the credential is not expired by the local clock at that
\* moment (it was acquired, or acquired again, less than its validity ago).
C16_NoExpiredCredentialEmbedded ==
    [][\A i \in Ids :
          jobs'[i] # jobs[i] =>
              now < accessToken[i].IssuedAt + accessToken[i].ExpiresIn]_vars

\* C17: no push event ends the process: whatever the event carries (an empty
\* list of changes included) and whatever the provider calls return, no
\* goroutine of the dispatch engine panics, and a pipeline that is over has
\* submitted one job or none.
C17_NoFatalFailure ==
    /\ mainPc # "panicked"
    /\ \A i \in Ids : PipelineOver(i) => Len(jobs[i]) <= 1

\* the spans a lookup started for its outbound calls: all of its spans but
\* the one of GetDigestCached itself
LastCallSpans ==
    Cardinality({k \in 1..Len(last.spans) :
                    last.spans[k] # "DockerHubApi::GetDigestCached"})

\* C18: every outbound call of a lookup (token fetch, digest fetch)
\* increments the outbound-call counter once and has one span of its own,
\* whether it succeeds or fails.
C18_EveryCallCountedAndTraced ==
    last.called =>
        /\ last.incs = last.tokenFetches + last.digestFetches
        /\ LastCallSpans = last.tokenFetches + last.digestFetches

\* the credential fetch of delivery i was made and failed
CredentialFailed(i) == calls[i] >= 1 /\ accessToken[i] = NoAccessToken

\* the definition fetch of delivery i was made and returned an error
DefinitionFailed(i) ==
    \E k \in 1..Len(manifestReq[i]) : manifestReq[i][k].manifestErr

\* C19: the pipeline of an event makes at most one credential fetch, one
\* definition fetch and one job submission, in this order: a definition
\* fetch only after the credential fetch, a submission only after the
\* definition fetch and with the clone url built from the fetched
\* credential; a pipeline that is over after a failed step made no later
\* step and did not repeat the failed one.
C19_StepsOnceInOrder ==
    \A i \in Ids :
        /\ calls[i] <= 1 /\ Len(manifestReq[i]) <= 1 /\ Len(jobs[i]) <= 1
        /\ manifestReq[i] # <<>> => (calls[i] = 1 /\ ~CredentialFailed(i))
        /\ jobs[i] # <<>> =>
               /\ Len(manifestReq[i]) = 1
               /\ accessToken[i].Token \in Range(jobs[i][1].RepoURL)
        /\ taskPc[i] \in {"none", "spawned", "start"} =>
               (calls[i] = 0 /\ manifestReq[i] = <<>> /\ jobs[i] = <<>>)
        /\ taskPc[i] = "manifest" => (manifestReq[i] = <<>> /\ jobs[i] = <<>>)
        /\ taskPc[i] = "submit" => jobs[i] = <<>>

\* a pipeline made its three calls, the submission failed and was not
\* repeated
C19_Witness ==
    \E i \in Ids :
        /\ PipelineOver(i)
        /\ calls[i] = 1 /\ Len(manifestReq[i]) = 1 /\ Len(jobs[i]) = 1
        /\ logs[i] = <<"debug", "error">>

\* C20: after a failed credential fetch the pipeline is over with no
\* definition fetch and no job submission; after a definition fetch that
\* returned an error it is over with no job submission; in both cases the
\* failed call is not made again and the event is neither in the channel nor
\* received again.
C20_FailureAbandonsEvent ==
    \A i \in Ids :
        /\ CredentialFailed(i) =>
               /\ PipelineOver(i)
               /\ calls[i] = 1 /\ manifestReq[i] = <<>> /\ jobs[i] = <<>>
        /\ DefinitionFailed(i) =>
               /\ PipelineOver(i)
               /\ Len(manifestReq[i]) = 1 /\ jobs[i] = <<>>
        /\ (CredentialFailed(i) \/ DefinitionFailed(i)) =>
               /\ dequeues[i] = 1
               /\ i \notin Range(queue) /\ i \notin handlers

\* one pipeline was abandoned at the credential fetch and another at the
\* definition fetch
C20_Witness ==
    \E i, j \in Ids :
        /\ i # j
        /\ CredentialFailed(i) /\ PipelineOver(i)
        /\ DefinitionFailed(j) /\ PipelineOver(j)
        /\ jobs[i] = <<>> /\ jobs[j] = <<>>

\* ------------------------------------------------------------------------
\* shutdown
\* ------------------------------------------------------------------------

\* C21: an event received from the channel before the shutdown signal
\* runs its pipeline to its natural end (job, skip or failure): when main
\* has returned from the graceful shutdown and the process ends, no
\* pipeline that was in progress at the signal is cut short.
C21_DequeuedBeforeSignalCompletes ==
    mainPc = "exited" => atSignal \cap MidPipeline = {}

\* the terminal state of the shutdown: wg.Wait() in main has returned, every
\* listen loop has received its quit message and returned, and no goroutine
\* of an event is left
Stopped ==
    /\ mainPc \in {"returned", "exited"}
    /\ \A w \in Workers : loopPc[w] = "stopped"
    /\ MidPipeline = {}

\* C22: the shutdown terminates: provided the pipelines in flight complete,
\* once the server's graceful shutdown has succeeded after the signal the
\* system reaches Stopped (the wait in main has returned and all worker
\* goroutines have exited) and stays there.
C22_ShutdownTerminates ==
    <>[](MidPipeline = {}) => ((mainPc = "closing") ~> []Stopped)

\* ------------------------------------------------------------------------
\* ownership
\* ------------------------------------------------------------------------

\* the clone url of a repository with a token in it
CloneURLWith(token, htmlURL) ==
    <<"https://x-token-auth:", token, "@bitbucket.org">> \o Tail(htmlURL)

\* C23: every job submitted by a pipeline takes its repository name,
\* branch, revision, clone url and token variable from the event received
\* for that pipeline and from the credential acquired for that event's
\* installation, whatever other events are processed at the same time.
C23_JobFromOwnEvent ==
    \A i \in Ids : \A k \in 1..Len(jobs[i]) :
        LET job == jobs[i][k]
            own == AccessTokens[event[i].InstallationID]
        IN  /\ job.RepoFullName = event[i].FullName
            /\ job.RepoBranch = WithoutRefsHeads(event[i].Ref)
            /\ job.RepoRevision = event[i].After
            /\ accessToken[i].Token = own
            /\ job.EnvironmentVariables.ESTAFETTE_GITHUB_API_TOKEN = own
            /\ job.RepoURL = CloneURLWith(own, event[i].HTMLURL)

\* two pushes to different repositories are processed at the same time: the
\* job of the second is submitted while the pipeline of the first, received
\* earlier, is about to submit its own
C23_Witness ==
    \E i, j \in Ids :
        /\ i < j
        /\ event[i].FullName # event[j].FullName
        /\ event[i].InstallationID # event[j].InstallationID
        /\ taskPc[i] = "submit"
        /\ Len(jobs[j]) = 1
        /\ jobs[j][1].RepoFullName = event[j].FullName

\* ------------------------------------------------------------------------
\* properties of what the digest lookup stores
\* ------------------------------------------------------------------------

\* C24: no digest record with an empty Digest is in the cache, and none is
\* returned by a lookup that reports no error.
C24_NoEmptyDigest ==
    /\ \A key \in DOMAIN digests : digests[key].Digest # ""
    /\ (last.called /\ ~last.err) => last.digest.Digest # ""

\* C25: when a lookup returns an error the digests map is as it was before
\* the call; the tokens map is as it was before when the token fetch failed,
\* and when the digest fetch failed it differs at most in the entry of the
\* requested repository, which holds the token just fetched if the call
\* renewed it.
C25_ErrorLeavesCaches ==
    (last.called /\ last.err) =>
        /\ last.tokenErr \/ last.digestErr
        /\ digests = last.before.digests
        /\ last.tokenErr => tokens = last.before.tokens
        /\ last.digestErr =>
               /\ DOMAIN tokens = DOMAIN last.before.tokens \cup {last.repository}
               /\ \A r \in DOMAIN last.before.tokens \ {last.repository} :
                      tokens[r] = last.before.tokens[r]
               /\ last.tokenFetches = 0 => tokens = last.before.tokens
               /\ last.tokenFetches = 1 =>
                      /\ tokens[last.repository].IssuedAt = last.at
                      /\ tokens[last.repository].Token # ""

\* a digest fetch failed after the token of its repository was renewed, with
\* a token of another repository and a digest in the cache
C25_Witness ==
    /\ last.called /\ last.err /\ last.digestErr
    /\ last.tokenFetches = 1
    /\ last.repository \in DOMAIN last.before.tokens
    /\ tokens[last.repository] # last.before.tokens[last.repository]
    /\ \E r \in DOMAIN tokens : r # last.repository
    /\ last.before.digests # <<>>
    /\ digests = last.before.digests

\* the latest call found no digest entry of its key, or one past its
\* ExpiresAt
LastDigestMissing == last.called /\ (~LastFound \/ LastAfterTTL)

\* C26: a lookup that finds the digest entry absent or expired and a token
\* of the repository that is not expired makes no token fetch and exactly
\* one digest fetch, with that cached token; a lookup makes a token fetch
\* only when the repository has no cached token or the cached one is past
\* its ExpiresAt.
C26_ValidTokenReused ==
    /\ (LastDigestMissing /\ LastTokenValid) =>
           /\ last.tokenFetches = 0
           /\ last.digestFetches = 1
           /\ last.usedToken = LastPriorToken
    /\ (last.called /\ last.tokenFetches > 0) =>
           \/ last.repository \notin DOMAIN last.before.tokens
           \/ last.at > LastPriorToken.IssuedAt + LastPriorToken.ExpiresIn

\* an expired digest entry was renewed with the token cached 300 s before
C26_Witness ==
    /\ LastAfterTTL
    /\ LastTokenValid
    /\ last.tokenFetches = 0
    /\ last.digestFetches = 1
    /\ last.usedToken = LastPriorToken
    /\ last.usedToken.Token # ""
    /\ ~last.err

\* ------------------------------------------------------------------------
\* Stop and the listen loop
\* ------------------------------------------------------------------------

\* C27: once Stop() was called on a worker whose loop is listening, the loop
\* receives the quit message and returns, whatever events arrive meanwhile,
\* and the goroutine sending the quit message gets rid of it.
C27_StopEndsLoop ==
    \A w \in Workers :
        /\ stopCalled[w] ~> (loopPc[w] = "stopped")
        /\ quitSenders[w] ~> ~quitSenders[w]

\* a loop has returned on the quit message after it had received an event,
\* while another event is still in the channel
C27_Witness ==
    \E w \in Workers :
        /\ stopCalled[w]
        /\ loopPc[w] = "stopped"
        /\ ~quitSenders[w]
        /\ queue # <<>>
        /\ \E i \in Ids : dequeues[i] > 0

\* ------------------------------------------------------------------------
\* the order of main's shutdown steps
\* ------------------------------------------------------------------------

\* main is at wg.Wait() or past it
AtOrPastWait == mainPc \in {"waiting", "returned", "exited"}

\* C28: the stop channel is closed only after the server's graceful
\* shutdown has completed (the signal has arrived, no handler is active any
\* more and srv.Shutdown has not failed), main is at the wait or past it
\* only with the stop channel closed, and after a failed server shutdown
\* the stop channel is not closed and the wait not reached.
C28_ShutdownOrder ==
    /\ stop => (handlers = {} /\ AtOrPastWait)
    /\ AtOrPastWait => stop
    /\ mainPc = "fatal" => (~stop /\ ~AtOrPastWait)

\* main waits on the WaitGroup for a pipeline in flight, the stop channel
\* closed, after the server has shut down with an event delivered
C28_Witness ==
    /\ mainPc = "waiting"
    /\ stop
    /\ wg > 0
    /\ handlers = {}

====
